---- MODULE Spec2Model ----
(***************************************************************************)
(* RANDPA finality gadget of DAObet: the per-round voting state machine    *)
(* (randpa_round), the round manager (randpa) and the prefix-chain tree    *)
(* they share.                                                             *)
(***************************************************************************)
EXTENDS Integers, Sequences, FiniteSets, TLC

(***************************************************************************)
(* Bounds of the model.                                                    *)
(***************************************************************************)
\* public keys of block producers are 1..NumKeys
NumKeys == 4
\* highest block number of the main chain that the host chain delivers
MaxBlockNum == 2
\* highest block number of the competing fork (it branches at the genesis block)
MaxForkNum == 0
\* round-phase messages a node takes in between two cache clears
MaxRoundMsgs == 3

\* the chain of the block-event runs: its length, and the length of its fork
MaxChainNum == 5
MaxChainFork == 1

\* the threads that call push_message, and the messages they push in a run
NumProducers == 2
MaxPushes == 3

\* the blocks the host chain delivers above the first block that lags too far
MaxLagNum == 5

(***************************************************************************)
(* Program constants.                                                      *)
(***************************************************************************)
round_width == 2
prevote_width == 1
msg_expiration_ms == 1000
proofs_cache_size == 2
max_finality_lag_blocks == 69 * 12 * 2 * 2

(***************************************************************************)
(* Values.                                                                 *)
(***************************************************************************)
Keys == 1..NumKeys
\* public_key_type{}: the 0-initialized key of a full node
ZeroKey == 0
\* the keys of this node's signature providers when it is a block producer
LocalKeys == {1}
\* a block id is <<block number, chain tag>>; the number is embedded in the id
MainTag == "main"
ForkTag == "fork"
ZeroId == <<0, "zero">>
Genesis == <<0, MainTag>>
NoBlock == <<0 - 1, "none">>
NoRound == [num |-> 0 - 1]
Sessions == {1}

get_block_num(block_id) == block_id[1]

MainBlocks == {<<n, MainTag>> : n \in 1..MaxBlockNum}
ForkBlocks == {<<n, ForkTag>> : n \in 1..MaxForkNum}
Blocks == MainBlocks \cup ForkBlocks
ChainBlocks ==
    {<<n, MainTag>> : n \in 1..MaxChainNum} \cup {<<n, ForkTag>> : n \in 1..MaxChainFork}

\* the block a block was built on (fixed by the block's id)
PrevBlock(b) == IF b[1] = 1 THEN Genesis ELSE <<b[1] - 1, b[2]>>

\* the producer that signed a block, and the schedule in force at it: after
\* its first two rounds the main chain runs a schedule without this node's keys
CreatorOf(b) == IF b[2] = MainTag THEN 2 ELSE 3
ScheduleOf(b) ==
    IF b[2] = MainTag /\ b[1] > 2 * round_width THEN Keys \ LocalKeys ELSE Keys

\* the universe's path from just after block a up to block b (a an ancestor of b)
RECURSIVE PathTo(_, _)
PathTo(a, b) ==
    IF b = a \/ b[1] <= a[1] THEN <<>> ELSE Append(PathTo(a, PrevBlock(b)), b)

SeqToSet(s) == {s[i] : i \in 1..Len(s)}

\* the elements of a set of numbers as an ascending sequence (std::set order)
RECURSIVE SetToSeq(_)
SetToSeq(S) ==
    IF S = {} THEN <<>>
    ELSE LET m == CHOOSE x \in S : \A y \in S : x <= y
         IN <<m>> \o SetToSeq(S \ {m})

(***************************************************************************)
(* Prefix tree (prefix_chain_tree.hpp).                                    *)
(***************************************************************************)
EmptyConf == [k \in {} |-> 0]

NewNode(id, parent, creator, bp_keys) ==
    [block_id |-> id, parent |-> parent, creator_key |-> creator,
     active_bp_keys |-> bp_keys, confirmation_data |-> EmptyConf]

\* tree_node { lib_id }: a node with no creator and no active keys
FreshRoot(id) == NewNode(id, NoBlock, ZeroKey, {})

NewTree(id) ==
    [root |-> id, nodes |-> (id :> FreshRoot(id)), order |-> <<>>]

find(t, id) == id \in DOMAIN t.nodes

Children(t, id) == {c \in DOMAIN t.nodes : t.nodes[c].parent = id}

has_confirmation(node, key) == key \in DOMAIN node.confirmation_data

RECURSIVE confirmation_number(_, _), SumConfirmations(_, _)
confirmation_number(t, id) ==
    Cardinality(DOMAIN t.nodes[id].confirmation_data)
        + SumConfirmations(t, Children(t, id))
SumConfirmations(t, S) ==
    IF S = {} THEN 0
    ELSE LET c == CHOOSE x \in S : TRUE
         IN confirmation_number(t, c) + SumConfirmations(t, S \ {c})

\* insert: NodeNotFound when the parent is absent (ok = FALSE); an
\* already-present child is left as it is
insert(t, parent, id, creator, bp_keys) ==
    IF ~find(t, parent) THEN [ok |-> FALSE, tree |-> t]
    ELSE IF find(t, id) THEN [ok |-> TRUE, tree |-> t]
    ELSE [ok |-> TRUE,
          tree |-> [t EXCEPT !.nodes = t.nodes @@ (id :> NewNode(id, parent, creator, bp_keys)),
                             !.order = Append(t.order, id)]]

\* a lookup that falls back to the root of the tree
find_last_node_or_root(t, base_block, blocks) ==
    LET hits == {i \in 1..Len(blocks) : find(t, blocks[i])}
    IN IF hits # {} THEN blocks[CHOOSE i \in hits : \A j \in hits : j <= i]
       ELSE IF find(t, base_block) THEN base_block
       ELSE t.root

\* the deepest block of blocks[] that is in the tree (scanned from the tail),
\* else base_block, else nothing
find_last_node(t, base_block, blocks) ==
    LET hits == {i \in 1..Len(blocks) : find(t, blocks[i])}
    IN IF hits # {} THEN blocks[CHOOSE i \in hits : \A j \in hits : j <= i]
       ELSE IF find(t, base_block) THEN base_block
       ELSE NoBlock

\* add_confirmations: first write wins
add_confirmations(t, base_block, blocks, key, msg) ==
    LET id == find_last_node(t, base_block, blocks)
    IN IF id = NoBlock THEN [node |-> NoBlock, tree |-> t]
       ELSE IF has_confirmation(t.nodes[id], key) THEN [node |-> id, tree |-> t]
       ELSE [node |-> id,
             tree |-> [t EXCEPT !.nodes[id].confirmation_data = @ @@ (key :> msg)]]

RECURSIVE PathFromRoot(_, _)
PathFromRoot(t, id) ==
    IF id = t.root \/ ~find(t, id) THEN <<>>
    ELSE Append(PathFromRoot(t, t.nodes[id].parent), id)

get_branch(t, id) == [base_block |-> t.root, blocks |-> PathFromRoot(t, id)]

get_last_inserted_block(t, creator) ==
    LET hits == {i \in 1..Len(t.order) : t.nodes[t.order[i]].creator_key = creator}
    IN IF hits = {} THEN NoBlock
       ELSE t.order[CHOOSE i \in hits : \A j \in hits : j <= i]

Depth(t, id) == Len(PathFromRoot(t, id))

\* the deepest node; among equally deep ones the first inserted
get_head(t) ==
    LET deepest == {id \in DOMAIN t.nodes :
                       \A o \in DOMAIN t.nodes : Depth(t, o) <= Depth(t, id)}
    IN IF t.root \in deepest THEN t.root
       ELSE LET idx == {i \in 1..Len(t.order) : t.order[i] \in deepest}
            IN t.order[CHOOSE i \in idx : \A j \in idx : i <= j]

IsDescendantOrSelf(t, id, anc) ==
    id = anc \/ anc \in SeqToSet(PathFromRoot(t, id)) \/ anc = t.root

\* set_root: keep the subtree of the node, or start over from a fresh root
set_root(t, id) ==
    IF ~find(t, id) THEN NewTree(id)
    ELSE LET keep == {n \in DOMAIN t.nodes : IsDescendantOrSelf(t, n, id)}
         IN [root |-> id,
             nodes |-> [n \in keep |->
                          IF n = id THEN [t.nodes[n] EXCEPT !.parent = NoBlock]
                          ELSE t.nodes[n]],
             order |-> SelectSeq(t.order, LAMBDA b : b \in keep)]

remove_confirmations(t) ==
    [t EXCEPT !.nodes = [n \in DOMAIN t.nodes |->
                            [t.nodes[n] EXCEPT !.confirmation_data = EmptyConf]]]

(***************************************************************************)
(* Messages (network_messages.hpp).  A signature is modelled by the key it *)
(* recovers to; the digest of a message covers its type, data and          *)
(* signatures.                                                             *)
(***************************************************************************)
prevote_msg(round_num, base_block, blocks, sigs) ==
    [type |-> "prevote",
     data |-> [round_num |-> round_num, base_block |-> base_block, blocks |-> blocks],
     signatures |-> sigs]

precommit_msg(round_num, block_id, sigs) ==
    [type |-> "precommit",
     data |-> [round_num |-> round_num, block_id |-> block_id],
     signatures |-> sigs]

finality_notice_msg(round_num, best_block, sigs) ==
    [type |-> "finality_notice",
     data |-> [round_num |-> round_num, best_block |-> best_block],
     signatures |-> sigs]

finality_req_proof_msg(round_num, sigs) ==
    [type |-> "finality_req_proof", data |-> [round_num |-> round_num], signatures |-> sigs]

proof_msg(proof, sigs) == [type |-> "proof", data |-> proof, signatures |-> sigs]

handshake_msg(lib_id, sigs) ==
    [type |-> "handshake", data |-> [lib |-> lib_id], signatures |-> sigs]

handshake_ans_msg(lib_id, sigs) ==
    [type |-> "handshake_ans", data |-> [lib |-> lib_id], signatures |-> sigs]

public_keys(msg) == msg.signatures

with_single_key(msg, i) == [msg EXCEPT !.signatures = <<msg.signatures[i]>>]

digest(msg) == <<msg.type, msg.data, msg.signatures>>

EmptyProof == [round_num |-> 0, best_block |-> ZeroId, prevotes |-> <<>>, precommits |-> <<>>]

(***************************************************************************)
(* The engine value: the fields of randpa, its round and tree, and what    *)
(* the step under way has put on the outgoing channels (out_net: the       *)
(* out-net channel, finality_out: the finality channel).                   *)
(***************************************************************************)
\* _signature_providers / _public_keys (randpa constructor, set_signature_providers)
public_keys_of(e) == IF e.is_block_producer THEN LocalKeys ELSE {ZeroKey}
sig_provs_by_key(e) == IF e.is_block_producer THEN LocalKeys ELSE {}
signature_providers_of(e) == SetToSeq(public_keys_of(e))

send(e, ses_id, msg) ==
    [e EXCEPT !.out_net = Append(@, [ses_id |-> ses_id, data |-> msg])]

RECURSIVE SendAll(_, _, _)
SendAll(e, sessions, msg) ==
    IF sessions = <<>> THEN e
    ELSE SendAll(send(e, Head(sessions), msg), Tail(sessions), msg)

\* the sessions of _peers in the order of its keys
PeerSessions(e) == [i \in 1..Len(SetToSeq(DOMAIN e.peers)) |-> e.peers[SetToSeq(DOMAIN e.peers)[i]]]

\* a broadcast that never consults _peer_messages
bcast_without_cache(e, msg) ==
    [SendAll(e, PeerSessions(e), msg) EXCEPT !.peer_messages = @ \cup {digest(msg)}]

bcast(e, msg) ==
    IF digest(msg) \in e.peer_messages THEN e
    ELSE [SendAll(e, PeerSessions(e), msg) EXCEPT !.peer_messages = @ \cup {digest(msg)}]

\* get_block_num(block_id) - 1 is a uint32: for block number 0 it wraps to
\* 2^32 - 1, and (2^32 - 1) / round_width = 2147483647, (2^32 - 1) % round_width = 1
round_num(block_id) ==
    IF get_block_num(block_id) = 0 THEN 2147483647
    ELSE (get_block_num(block_id) - 1) \div round_width

num_in_round(block_id) ==
    IF get_block_num(block_id) = 0 THEN 1
    ELSE (get_block_num(block_id) - 1) % round_width

\* the node best_node points to: the tree's node, or the node as it was when
\* the tree let go of it
best_node_of(e) ==
    IF e.round.best_detached THEN e.round.best_snap
    ELSE e.prefix_tree.nodes[e.round.best_node]

update_lib(e, lib_id) ==
    LET t == set_root(e.prefix_tree, lib_id)
        lost == /\ e.round # NoRound
                /\ e.round.best_node # NoBlock
                /\ ~e.round.best_detached
                /\ (~find(e.prefix_tree, lib_id) \/ ~find(t, e.round.best_node))
    IN [e EXCEPT !.prefix_tree = t,
                 !.lib = lib_id,
                 !.round = IF lost
                           THEN [@ EXCEPT !.best_detached = TRUE,
                                          !.best_snap = e.prefix_tree.nodes[e.round.best_node]]
                           ELSE @]

PushFront(buf, x) == SubSeq(<<x>> \o buf, 1, IF Len(buf) + 1 > proofs_cache_size
                                               THEN proofs_cache_size ELSE Len(buf) + 1)

on_proof_gained(e, proof) ==
    LET e1 == [e EXCEPT !.last_proofs = PushFront(@, proof),
                        !.last_prooved_block_num = get_block_num(proof.best_block),
                        !.finality_out = Append(@, proof.best_block)]
    IN bcast(e1, finality_notice_msg(proof.round_num, proof.best_block,
                                     signature_providers_of(e)))

\* randpa_round::finish followed by the rest of randpa::finish_round
finish_round(e) ==
    IF e.round = NoRound THEN e
    ELSE IF e.round.state # "done" THEN [e EXCEPT !.round.state = "fail"]
    ELSE IF get_block_num(e.lib) < get_block_num(e.round.proof.best_block)
         THEN update_lib(on_proof_gained(e, e.round.proof), e.round.proof.best_block)
         ELSE e

(***************************************************************************)
(* randpa_round (round.hpp), acting on the round and the tree of e.        *)
(***************************************************************************)
\* a threshold that a count of exactly two thirds already meets
prevote_threshold_met_at_two_thirds(t, id) ==
    confirmation_number(t, id) >= (2 * Cardinality(t.nodes[id].active_bp_keys)) \div 3

is_prevote_threshold_reached(t, id) ==
    confirmation_number(t, id) > (2 * Cardinality(t.nodes[id].active_bp_keys)) \div 3

is_precommit_threshold_reached(e) ==
    Len(e.round.proof.precommits) > (2 * Cardinality(best_node_of(e).active_bp_keys)) \div 3

add_prevote(e, msg) ==
    LET key == public_keys(msg)[1]
        r == add_confirmations(e.prefix_tree, msg.data.base_block, msg.data.blocks, key, msg)
        e1 == [e EXCEPT !.prefix_tree = r.tree,
                        !.round.prevoted_keys = @ \cup {key}]
    IN IF r.node = NoBlock THEN e   \* FC_ASSERT(max_prevote_node)
       ELSE IF e.round.state # "ready_to_precommit"
               /\ is_prevote_threshold_reached(r.tree, r.node)
            THEN [e1 EXCEPT !.round.state = "ready_to_precommit",
                            !.round.best_node = r.node,
                            !.round.best_detached = FALSE]
            ELSE e1

\* a precommit that calls done_cb whenever the threshold is met
add_precommit_calling_back_again(e, msg) ==
    LET key == public_keys(msg)[1]
        e1 == [e EXCEPT !.round.precommited_keys = @ \cup {key},
                        !.round.proof.precommits = Append(@, msg)]
    IN IF is_precommit_threshold_reached(e1)
       THEN LET e2 == [e1 EXCEPT !.round.state = "done"]
            IN finish_round([e2 EXCEPT !.done_cb_log =
                                Append(@, [round |-> e2.round, best |-> best_node_of(e2)])])
       ELSE e1

add_precommit(e, msg) ==
    LET key == public_keys(msg)[1]
        e1 == [e EXCEPT !.round.precommited_keys = @ \cup {key},
                        !.round.proof.precommits = Append(@, msg)]
    IN IF e1.round.state # "done" /\ is_precommit_threshold_reached(e1)
       THEN LET e2 == [e1 EXCEPT !.round.state = "done"]
            IN finish_round([e2 EXCEPT !.done_cb_log =
                                Append(@, [round |-> e2.round, best |-> best_node_of(e2)])])
       ELSE e1

validate_prevote(e, msg, key) ==
    LET node == find_last_node(e.prefix_tree, msg.data.base_block, msg.data.blocks)
    IN /\ e.round.num = msg.data.round_num
       /\ key \notin e.round.prevoted_keys
       /\ node # NoBlock
       /\ key \in e.prefix_tree.nodes[node].active_bp_keys

\* a validation that lets a key precommit again
validate_precommit_again(e, msg, key) ==
    /\ e.round.num = msg.data.round_num
    /\ msg.data.block_id = best_node_of(e).block_id
    /\ has_confirmation(best_node_of(e), key)

validate_precommit(e, msg, key) ==
    /\ e.round.num = msg.data.round_num
    /\ key \notin e.round.precommited_keys
    /\ msg.data.block_id = best_node_of(e).block_id
    /\ has_confirmation(best_node_of(e), key)

RECURSIVE prevote_each(_, _, _)
prevote_each(e, msg, i) ==
    IF i > Len(msg.signatures) THEN e
    ELSE prevote_each(IF validate_prevote(e, msg, public_keys(msg)[i])
                      THEN add_prevote(e, with_single_key(msg, i))
                      ELSE e,
                      msg, i + 1)

round_on_prevote(e, msg) ==
    IF e.round.state \notin {"prevote", "ready_to_precommit"} THEN e
    ELSE prevote_each(e, msg, 1)

RECURSIVE precommit_each(_, _, _)
precommit_each(e, msg, i) ==
    IF i > Len(msg.signatures) THEN e
    ELSE precommit_each(IF validate_precommit(e, msg, public_keys(msg)[i])
                        THEN add_precommit(e, with_single_key(msg, i))
                        ELSE e,
                        msg, i + 1)

round_on_precommit(e, msg) ==
    IF e.round.state \notin {"precommit", "ready_to_precommit"} THEN e
    ELSE precommit_each(e, msg, 1)

RECURSIVE sign_prevotes(_, _, _)
sign_prevotes(e, msg, i) ==
    IF i > Len(msg.signatures) THEN e
    ELSE sign_prevotes(add_prevote(e, with_single_key(msg, i)), msg, i + 1)

RECURSIVE sign_precommits(_, _, _)
sign_precommits(e, msg, i) ==
    IF i > Len(msg.signatures) THEN e
    ELSE sign_precommits(add_precommit(e, with_single_key(msg, i)), msg, i + 1)

\* randpa_round::prevote, called by the constructor in state init
prevote(e) ==
    LET e1 == [e EXCEPT !.round.state = "prevote"]
        last_node == get_last_inserted_block(e.prefix_tree, e.round.primary)
        chain == get_branch(e.prefix_tree, last_node)
        msg == prevote_msg(e.round.num, chain.base_block, chain.blocks,
                           e.round.signature_providers)
    IN IF last_node = NoBlock THEN e1
       ELSE bcast(sign_prevotes(e1, msg, 1), msg)

\* randpa_round::precommit, called by end_prevote in state ready_to_precommit
precommit(e) ==
    LET e1 == [e EXCEPT !.round.state = "precommit"]
        msg == precommit_msg(e.round.num, best_node_of(e).block_id,
                             e.round.signature_providers)
    IN bcast(sign_precommits(e1, msg, 1), msg)

\* the prevote messages of a node's confirmation_data, in the order of the keys
ConfirmationMsgs(node) ==
    [i \in 1..Cardinality(DOMAIN node.confirmation_data) |->
        node.confirmation_data[SetToSeq(DOMAIN node.confirmation_data)[i]]]

end_prevote(e) ==
    IF e.round.state # "ready_to_precommit" THEN [e EXCEPT !.round.state = "fail"]
    ELSE precommit([e EXCEPT !.round.proof.round_num = e.round.num,
                             !.round.proof.best_block = best_node_of(e).block_id,
                             !.round.proof.prevotes = @ \o ConfirmationMsgs(best_node_of(e))])

\* the randpa_round constructor
NewRound(num, primary, providers) ==
    [num |-> num, primary |-> primary, state |-> "init", proof |-> EmptyProof,
     best_node |-> NoBlock, best_detached |-> FALSE, best_snap |-> FreshRoot(NoBlock),
     signature_providers |-> providers, prevoted_keys |-> {}, precommited_keys |-> {}]

(***************************************************************************)
(* randpa (randpa.hpp): the round manager.                                 *)
(***************************************************************************)
is_active_bp(e, block_id) ==
    /\ e.is_block_producer
    /\ find(e.prefix_tree, block_id)
    /\ \E k \in public_keys_of(e) : k \in e.prefix_tree.nodes[block_id].active_bp_keys

get_active_signature_providers(e, active_bp_keys) ==
    SetToSeq(active_bp_keys \cap sig_provs_by_key(e))

\* a round start for a block of the round under way as well
should_start_round_in_same_round(e, block_id) ==
    IF get_block_num(block_id) < 1 THEN FALSE
    ELSE IF e.round = NoRound THEN TRUE
    ELSE round_num(block_id) >= e.round.num

should_start_round(e, block_id) ==
    IF get_block_num(block_id) < 1 THEN FALSE
    ELSE IF e.round = NoRound THEN TRUE
    ELSE round_num(block_id) > e.round.num

should_end_prevote(e, block_id) ==
    IF e.round = NoRound THEN FALSE
    ELSE round_num(block_id) = e.round.num /\ num_in_round(block_id) = prevote_width

remove_round(e) ==
    [e EXCEPT !.peer_messages = {},
              !.self_messages = {},
              !.prefix_tree = remove_confirmations(@),
              !.round = NoRound]

new_round(e, num, primary, active_bp_keys) ==
    prevote([e EXCEPT !.round =
                NewRound(num, primary, get_active_signature_providers(e, active_bp_keys))])

\* the uint32 difference of the block numbers against the lag limit: below
\* the lib the difference wraps to at least 2^32 - MaxBlockNum
IsLagging(block_id, lib_id) ==
    IF get_block_num(block_id) >= get_block_num(lib_id)
    THEN get_block_num(block_id) - get_block_num(lib_id) > max_finality_lag_blocks
    ELSE TRUE

on_accepted_block(e, ev) ==
    LET ins == insert(e.prefix_tree, ev.prev_block_id, ev.block_id,
                      ev.creator_key, ev.active_bp_keys)
        e1 == [e EXCEPT !.prefix_tree = ins.tree,
                        !.is_syncing = ev.sync,
                        !.is_frozen = IsLagging(ev.block_id, e.lib)]
        e2 == IF should_start_round(e1, ev.block_id)
              THEN IF is_active_bp(e1, ev.block_id)
                   THEN new_round(remove_round(e1), round_num(ev.block_id),
                                  ev.creator_key, ev.active_bp_keys)
                   ELSE remove_round(e1)
              ELSE e1
    IN IF ~ins.ok THEN e
       ELSE IF e1.is_syncing \/ e1.is_frozen THEN e1
       ELSE IF should_end_prevote(e2, ev.block_id) THEN end_prevote(e2)
       ELSE e2

\* an irreversible event applied whatever its block number
on_irreversible_any(e, ev) == update_lib(e, ev.block_id)

on_irreversible(e, ev) ==
    IF get_block_num(ev.block_id) <= get_block_num(e.prefix_tree.root) THEN e
    ELSE update_lib(e, ev.block_id)

on_new_peer(e, ev) ==
    send(e, ev.ses_id, handshake_msg(e.lib, signature_providers_of(e)))

\* a handler of round messages that forwards the messages of every round
process_round_msg_forward_all(e, ses_id, msg) ==
    IF e.is_syncing \/ e.is_frozen THEN e
    ELSE IF digest(msg) \in e.self_messages THEN e
    ELSE LET e1 == [e EXCEPT !.self_messages = @ \cup {digest(msg)}]
             e2 == bcast(e1, msg)
         IN IF e2.round = NoRound THEN e2
            ELSE IF msg.type = "prevote" THEN round_on_prevote(e2, msg)
            ELSE round_on_precommit(e2, msg)

\* a handler of round messages that looks at neither _is_syncing nor _is_frozen
process_round_msg_ungated(e, ses_id, msg) ==
    IF digest(msg) \in e.self_messages THEN e
    ELSE LET e1 == [e EXCEPT !.self_messages = @ \cup {digest(msg)}]
             e2 == IF round_num(get_head(e1.prefix_tree)) = msg.data.round_num
                   THEN bcast(e1, msg) ELSE e1
         IN IF e2.round = NoRound THEN e2
            ELSE IF msg.type = "prevote" THEN round_on_prevote(e2, msg)
            ELSE round_on_precommit(e2, msg)

process_round_msg(e, ses_id, msg) ==
    IF e.is_syncing \/ e.is_frozen THEN e
    ELSE IF digest(msg) \in e.self_messages THEN e
    ELSE LET e1 == [e EXCEPT !.self_messages = @ \cup {digest(msg)}]
             e2 == IF round_num(get_head(e1.prefix_tree)) = msg.data.round_num
                   THEN bcast(e1, msg) ELSE e1
         IN IF e2.round = NoRound THEN e2
            ELSE IF msg.type = "prevote" THEN round_on_prevote(e2, msg)
            ELSE round_on_precommit(e2, msg)

validate_proof_prevote(prevote_data, key, best_block, bp_keys) ==
    /\ (prevote_data.base_block = best_block \/ best_block \in SeqToSet(prevote_data.blocks))
    /\ key \in bp_keys

validate_proof_precommit(precommit_data, key, best_block, bp_keys) ==
    /\ precommit_data.block_id = best_block
    /\ key \in bp_keys

\* the keys of all the signatures of a sequence of messages
KeysOf(msgs) == UNION {SeqToSet(public_keys(msgs[i])) : i \in 1..Len(msgs)}

\* a proof check that counts the precommit signatures, not the distinct keys
validate_proof_counting_entries(e, proof) ==
    /\ find(e.prefix_tree, proof.best_block)
    /\ LET bp_keys == e.prefix_tree.nodes[proof.best_block].active_bp_keys
       IN /\ \A i \in 1..Len(proof.prevotes) :
                \A k \in SeqToSet(public_keys(proof.prevotes[i])) :
                    validate_proof_prevote(proof.prevotes[i].data, k, proof.best_block, bp_keys)
          /\ \A i \in 1..Len(proof.precommits) :
                \A k \in SeqToSet(public_keys(proof.precommits[i])) :
                    /\ k \in KeysOf(proof.prevotes)
                    /\ validate_proof_precommit(proof.precommits[i].data, k,
                                                proof.best_block, bp_keys)
          /\ Len(proof.precommits) > (Cardinality(bp_keys) * 2) \div 3

validate_proof(e, proof) ==
    /\ find(e.prefix_tree, proof.best_block)
    /\ LET bp_keys == e.prefix_tree.nodes[proof.best_block].active_bp_keys
       IN /\ \A i \in 1..Len(proof.prevotes) :
                \A k \in SeqToSet(public_keys(proof.prevotes[i])) :
                    validate_proof_prevote(proof.prevotes[i].data, k, proof.best_block, bp_keys)
          /\ \A i \in 1..Len(proof.precommits) :
                \A k \in SeqToSet(public_keys(proof.precommits[i])) :
                    /\ k \in KeysOf(proof.prevotes)
                    /\ validate_proof_precommit(proof.precommits[i].data, k,
                                                proof.best_block, bp_keys)
          /\ Cardinality(KeysOf(proof.precommits)) > (Cardinality(bp_keys) * 2) \div 3

on_finality_notice(e, ses_id, msg) ==
    IF is_active_bp(e, msg.data.best_block)
       /\ get_block_num(msg.data.best_block) <= e.last_prooved_block_num
    THEN e
    ELSE send(e, ses_id, finality_req_proof_msg(msg.data.round_num, signature_providers_of(e)))

on_finality_req_proof(e, ses_id, msg) ==
    LET hits == {i \in 1..Len(e.last_proofs) : e.last_proofs[i].round_num = msg.data.round_num}
    IN IF hits = {} THEN e
       ELSE send(e, ses_id,
                 proof_msg(e.last_proofs[CHOOSE i \in hits : \A j \in hits : i <= j],
                           signature_providers_of(e)))

on_proof_msg(e, ses_id, msg) ==
    LET proof == msg.data
    IN IF e.is_syncing \/ e.is_frozen THEN e
       ELSE IF e.last_prooved_block_num >= get_block_num(proof.best_block) THEN e
       ELSE IF get_block_num(e.lib) >= get_block_num(proof.best_block) THEN e
       ELSE IF e.round # NoRound /\ e.round.state = "done" THEN e
       ELSE IF ~validate_proof(e, proof) THEN e
       ELSE on_proof_gained(
                IF e.round # NoRound /\ e.round.num = proof.round_num
                THEN [e EXCEPT !.round.state = "done"] ELSE e,
                proof)

RECURSIVE RecordPeers(_, _, _)
RecordPeers(peers, keys, ses_id) ==
    IF keys = <<>> THEN peers
    ELSE RecordPeers([k \in DOMAIN peers \cup {Head(keys)} |->
                         IF k = Head(keys) THEN ses_id ELSE peers[k]],
                     Tail(keys), ses_id)

RECURSIVE AnswerEach(_, _, _)
AnswerEach(e, n, ses_id) ==
    IF n = 0 THEN e
    ELSE AnswerEach(send(e, ses_id, handshake_ans_msg(e.lib, signature_providers_of(e))),
                    n - 1, ses_id)

on_handshake(e, ses_id, msg) ==
    AnswerEach([e EXCEPT !.peers = RecordPeers(@, public_keys(msg), ses_id)],
               Len(public_keys(msg)), ses_id)

on_handshake_ans(e, ses_id, msg) ==
    [e EXCEPT !.peers = RecordPeers(@, public_keys(msg), ses_id)]

\* process_net_msg and the visitor's dispatch; age is now - receive_time in ms
process_net_msg(e, m) ==
    IF m.age > msg_expiration_ms THEN e
    ELSE IF m.data.type \in {"prevote", "precommit"} THEN process_round_msg(e, m.ses_id, m.data)
    ELSE IF m.data.type = "finality_notice" THEN on_finality_notice(e, m.ses_id, m.data)
    ELSE IF m.data.type = "finality_req_proof" THEN on_finality_req_proof(e, m.ses_id, m.data)
    ELSE IF m.data.type = "proof" THEN on_proof_msg(e, m.ses_id, m.data)
    ELSE IF m.data.type = "handshake" THEN on_handshake(e, m.ses_id, m.data)
    ELSE on_handshake_ans(e, m.ses_id, m.data)

(***************************************************************************)
(* State.                                                                  *)
(***************************************************************************)
VARIABLES
    prefix_tree,             \* _prefix_tree
    round,                   \* _round (NoRound when null)
    lib,                     \* _lib
    last_prooved_block_num,  \* _last_prooved_block_num
    peers,                   \* _peers: public key -> session id
    peer_messages,           \* _peer_messages
    self_messages,           \* _self_messages
    last_proofs,             \* _last_proofs, newest first
    is_syncing,              \* _is_syncing
    is_frozen,               \* _is_frozen
    is_block_producer,       \* _is_block_producer
    finality_out,            \* what the last step sent on the finality channel
    done_cb_log,             \* the round and its best node at each done_cb call of the last step
    held_round_num           \* the highest number of a round _round has held

\* message_queue, and the threads around it
VARIABLES
    message_queue,           \* message_queue::_message_queue
    need_notify,             \* message_queue::_need_notify
    queue_done,              \* message_queue::_done
    message_queue_mutex,     \* the thread that holds _message_queue_mutex, or NoThread
    new_msg_cond,            \* the threads blocked in _new_msg_cond
    done,                    \* randpa::_done
    pc,                      \* where each thread is
    pushed,                  \* the messages pushed, in the order of the pushes
    returned                 \* the messages get_next_msg_wait has returned, in order

queue_vars == <<message_queue, need_notify, queue_done, message_queue_mutex,
                new_msg_cond, done, pc, pushed, returned>>

engine_vars == <<prefix_tree, round, lib, last_prooved_block_num, peers, peer_messages,
                 self_messages, last_proofs, is_syncing, is_frozen, is_block_producer,
                 finality_out, done_cb_log, held_round_num>>

vars == <<engine_vars, queue_vars>>

\* the threads: the worker that runs loop(), the thread that calls stop(),
\* and the producers that call push_message
Worker == "worker"
Stopper == "stopper"
ProducerNames == <<"producer1", "producer2", "producer3", "producer4">>
Producers == {ProducerNames[i] : i \in 1..NumProducers}
NoThread == "none"
Threads == {Worker, Stopper} \cup Producers

\* message_queue() and the threads before they have done anything
QueueInit ==
    /\ message_queue = <<>>
    /\ need_notify = TRUE
    /\ queue_done = FALSE
    /\ message_queue_mutex = NoThread
    /\ new_msg_cond = {}
    /\ done = FALSE
    /\ pc = [t \in Threads |-> IF t = Worker THEN "get_next_msg_wait" ELSE "idle"]
    /\ pushed = <<>>
    /\ returned = <<>>

Eng ==
    [prefix_tree |-> prefix_tree, round |-> round, lib |-> lib,
     last_prooved_block_num |-> last_prooved_block_num, peers |-> peers,
     peer_messages |-> peer_messages, self_messages |-> self_messages,
     last_proofs |-> last_proofs, is_syncing |-> is_syncing, is_frozen |-> is_frozen,
     is_block_producer |-> is_block_producer,
     out_net |-> <<>>, finality_out |-> finality_out, done_cb_log |-> done_cb_log]

\* the engine as a step finds it: nothing sent yet
Begin(e) == [e EXCEPT !.out_net = <<>>, !.finality_out = <<>>, !.done_cb_log = <<>>]

\* the fields of the engine after a step that has left it as e
AssignEng(e) ==
    /\ prefix_tree' = e.prefix_tree
    /\ round' = e.round
    /\ lib' = e.lib
    /\ last_prooved_block_num' = e.last_prooved_block_num
    /\ peers' = e.peers
    /\ peer_messages' = e.peer_messages
    /\ self_messages' = e.self_messages
    /\ last_proofs' = e.last_proofs
    /\ is_syncing' = e.is_syncing
    /\ is_frozen' = e.is_frozen
    /\ is_block_producer' = e.is_block_producer
    /\ finality_out' = e.finality_out
    /\ done_cb_log' = e.done_cb_log
    /\ held_round_num' = IF e.round.num > held_round_num THEN e.round.num
                         ELSE held_round_num

SetEng(e) == AssignEng(e) /\ UNCHANGED queue_vars

\* randpa() and start(tree): a block producer with its keys set, or a full
\* node that was given no signature providers
Init ==
    /\ prefix_tree = NewTree(Genesis)
    /\ round = NoRound
    /\ lib = Genesis
    /\ last_prooved_block_num = 0
    /\ peers = [k \in {} |-> 0]
    /\ peer_messages = {}
    /\ self_messages = {}
    /\ last_proofs = <<>>
    /\ is_syncing = FALSE
    /\ is_frozen = FALSE
    /\ is_block_producer \in BOOLEAN
    /\ finality_out = <<>>
    /\ done_cb_log = <<>>
    /\ held_round_num = NoRound.num
    /\ QueueInit

(***************************************************************************)
(* Inputs.                                                                 *)
(***************************************************************************)
BlockEvent(b, s) ==
    [block_id |-> b, prev_block_id |-> PrevBlock(b), creator_key |-> CreatorOf(b),
     active_bp_keys |-> ScheduleOf(b), sync |-> s]

AcceptedBlockEvents == {BlockEvent(b, s) : b \in Blocks, s \in BOOLEAN}

AcceptedChainEvents == {BlockEvent(b, s) : b \in ChainBlocks, s \in BOOLEAN}

IrreversibleEvents == {[block_id |-> b] : b \in Blocks}

NewPeerEvents == {[ses_id |-> s] : s \in Sessions}

\* the signatures on the votes of peers: the producers 2 and 3 run on one
\* node and sign together, the last producer signs alone and is the one
\* that may be a block ahead; a precommit signed by this node's own key is
\* one it signed before a restart
PrevoteSigSets == {<<2, 3>>, <<NumKeys>>}
PrecommitSigSets == {<<1>>, <<2, 3>>, <<NumKeys>>}
PeerSigSets == {<<2, 3>>}

\* the rounds peers vote in: the live round of the chain and the node's own
RoundNums(e) ==
    {round_num(get_head(e.prefix_tree))}
        \cup (IF e.round = NoRound THEN {} ELSE {e.round.num})

\* the blocks of the tree above its root, and their not yet accepted successors
InTree(e) ==
    {b \in Blocks : get_block_num(b) > get_block_num(e.prefix_tree.root)
                    /\ find(e.prefix_tree, b)}

Ahead(e) ==
    {b \in Blocks : get_block_num(b) > get_block_num(e.prefix_tree.root)
                    /\ ~find(e.prefix_tree, b) /\ find(e.prefix_tree, PrevBlock(b))}

Candidates(e) == InTree(e) \cup Ahead(e)

PrevoteMsgs(e) ==
    {prevote_msg(r, e.prefix_tree.root, PathTo(e.prefix_tree.root, b), sigs) :
        r \in RoundNums(e), b \in InTree(e), sigs \in PrevoteSigSets}
    \cup
    {prevote_msg(r, e.prefix_tree.root, PathTo(e.prefix_tree.root, b), <<NumKeys>>) :
        r \in RoundNums(e), b \in Ahead(e)}

PrecommitMsgs(e) ==
    {precommit_msg(r, b, sigs) : r \in RoundNums(e), b \in InTree(e), sigs \in PrecommitSigSets}

\* a proof as a peer's round builds it: one prevote and one precommit per voter
ProofOf(r, base, b, voters) ==
    [round_num |-> r, best_block |-> b,
     prevotes |-> [i \in 1..Cardinality(voters) |->
                      prevote_msg(r, base, PathTo(base, b), <<SetToSeq(voters)[i]>>)],
     precommits |-> [i \in 1..Cardinality(voters) |->
                      precommit_msg(r, b, <<SetToSeq(voters)[i]>>)]]

ProofMsgs(e) ==
    {proof_msg(ProofOf(r, e.prefix_tree.root, b, voters), <<2>>) :
        r \in RoundNums(e), b \in Candidates(e), voters \in {Keys \ {1}, Keys \ {1, 2}}}

Ages == {msg_expiration_ms, msg_expiration_ms + 1}

NoticeMsgs(e) ==
    {finality_notice_msg(r, b, <<2>>) : r \in RoundNums(e), b \in Candidates(e)}

ReqProofMsgs(e) ==
    {finality_req_proof_msg(r, <<2>>) :
        r \in RoundNums(e) \cup {e.last_proofs[i].round_num : i \in 1..Len(e.last_proofs)}}

HandshakeMsgs(e) == {handshake_msg(Genesis, sigs) : sigs \in PeerSigSets}

HandshakeAnsMsgs(e) == {handshake_ans_msg(Genesis, sigs) : sigs \in PeerSigSets}

NetMsgs(data) == {[ses_id |-> s, data |-> d, age |-> a] : s \in Sessions, d \in data, a \in Ages}

\* the dedup cache of handled round messages has room for the message
HasRoom(e, msg) ==
    digest(msg) \in e.self_messages \/ Cardinality(e.self_messages) < MaxRoundMsgs

RecvRoundMsg(m) == HasRoom(Eng, m.data) /\ SetEng(process_net_msg(Begin(Eng), m))

(***************************************************************************)
(* Actions: one per event and per kind of network message, each the whole  *)
(* of process_msg for it.                                                  *)
(***************************************************************************)
AcceptedBlock ==
    \E ev \in AcceptedBlockEvents :
        SetEng(on_accepted_block(Begin(Eng), ev))

Irreversible ==
    \E ev \in IrreversibleEvents :
        SetEng(on_irreversible(Begin(Eng), ev))

NewPeer ==
    \E ev \in NewPeerEvents :
        SetEng(on_new_peer(Begin(Eng), ev))

RecvPrevote == \E m \in NetMsgs(PrevoteMsgs(Eng)) : RecvRoundMsg(m)

RecvPrecommit == \E m \in NetMsgs(PrecommitMsgs(Eng)) : RecvRoundMsg(m)

RecvMsg(m) == SetEng(process_net_msg(Begin(Eng), m))

RecvProof == \E m \in NetMsgs(ProofMsgs(Eng)) : RecvMsg(m)

RecvFinalityNotice == \E m \in NetMsgs(NoticeMsgs(Eng)) : RecvMsg(m)

RecvFinalityReqProof == \E m \in NetMsgs(ReqProofMsgs(Eng)) : RecvMsg(m)

RecvHandshake == \E m \in NetMsgs(HandshakeMsgs(Eng)) : RecvMsg(m)

RecvHandshakeAns == \E m \in NetMsgs(HandshakeAnsMsgs(Eng)) : RecvMsg(m)

Next ==
    \/ AcceptedBlock
    \/ Irreversible
    \/ NewPeer
    \/ RecvPrevote
    \/ RecvPrecommit
    \/ RecvProof
    \/ RecvFinalityNotice
    \/ RecvFinalityReqProof
    \/ RecvHandshake
    \/ RecvHandshakeAns

Spec == Init /\ [][Next]_vars

(***************************************************************************)
(* The engine under block events alone, over a longer chain with a fork:   *)
(* round scheduling.                                                       *)
(***************************************************************************)
AcceptedChainBlock ==
    \E ev \in AcceptedChainEvents : SetEng(on_accepted_block(Begin(Eng), ev))

NextChain ==
    \/ AcceptedChainBlock
    \/ Irreversible

SpecChain == Init /\ [][NextChain]_vars

(***************************************************************************)
(* The engine after finality has stalled: the blocks 1..LagBase have been  *)
(* accepted with _lib at the genesis block, the last of them more than     *)
(* _max_finality_lag_blocks above it, and the host chain has then made     *)
(* block LagBase irreversible; the chain goes on from there.               *)
(***************************************************************************)
\* the number of the first block that is too far above the genesis block
LagBase == max_finality_lag_blocks + 1

LagBlocks ==
    {<<LagBase + n, MainTag>> : n \in 1..MaxLagNum} \cup {<<LagBase + 1, ForkTag>>}

\* what the accepted blocks and update_lib(LagBase) have left: the last
\* blocks of the chain were made under a schedule without this node's keys,
\* so each of them removed the round and started none
InitLag ==
    /\ prefix_tree =
          set_root(insert(NewTree(<<LagBase - 1, MainTag>>), <<LagBase - 1, MainTag>>,
                          <<LagBase, MainTag>>, CreatorOf(<<LagBase, MainTag>>),
                          ScheduleOf(<<LagBase, MainTag>>)).tree,
                   <<LagBase, MainTag>>)
    /\ round = NoRound
    /\ lib = <<LagBase, MainTag>>
    /\ last_prooved_block_num = 0
    /\ peers = [k \in {} |-> 0]
    /\ peer_messages = {}
    /\ self_messages = {}
    /\ last_proofs = <<>>
    /\ is_syncing \in BOOLEAN
    /\ is_frozen = IsLagging(<<LagBase, MainTag>>, Genesis)
    /\ is_block_producer \in BOOLEAN
    /\ finality_out = <<>>
    /\ done_cb_log = <<>>
    /\ held_round_num = IF is_block_producer THEN 1 ELSE NoRound.num
    /\ QueueInit

AcceptedLagBlock ==
    \E b \in LagBlocks, s \in BOOLEAN :
        SetEng(on_accepted_block(Begin(Eng),
                                 [BlockEvent(b, s) EXCEPT
                                     !.prev_block_id = <<b[1] - 1, MainTag>>]))

IrreversibleLag ==
    \E b \in LagBlocks : SetEng(on_irreversible(Begin(Eng), [block_id |-> b]))

NextLag ==
    \/ AcceptedLagBlock
    \/ IrreversibleLag

SpecLag == InitLag /\ [][NextLag]_vars

(***************************************************************************)
(* message_queue (randpa.hpp) between the producers that push, the worker  *)
(* thread in loop() and the thread that calls stop().  A step is what a    *)
(* thread does between two points where another thread can see or change   *)
(* what it works on; _need_notify and both _done flags are atomics read    *)
(* and written outside the mutex.                                          *)
(***************************************************************************)
Goto(t, label) == pc' = [pc EXCEPT ![t] = label]

\* std::condition_variable::notify_one: one of the blocked threads, if any
notify_one(cond) == IF cond = {} THEN cond ELSE cond \ {CHOOSE t \in cond : TRUE}

\* the predicate of _new_msg_cond.wait
wait_predicate == message_queue # <<>> \/ queue_done

\* push_message: mutex_guard lock(_message_queue_mutex)
ProducerLock(p) ==
    /\ pc[p] = "idle"
    /\ Len(pushed) < MaxPushes
    /\ message_queue_mutex = NoThread
    /\ message_queue_mutex' = p
    /\ pushed' = Append(pushed, <<p, Len(pushed) + 1>>)
    /\ Goto(p, "push_message")
    /\ UNCHANGED <<engine_vars, message_queue, need_notify, queue_done, new_msg_cond,
                   done, returned>>

\* a push that notifies nobody
ProducerPushSilently(p) ==
    /\ pc[p] = "push_message"
    /\ message_queue' = Append(message_queue, pushed[Len(pushed)])
    /\ message_queue_mutex' = NoThread
    /\ Goto(p, "idle")
    /\ UNCHANGED <<engine_vars, need_notify, queue_done, new_msg_cond, done, pushed, returned>>

\* a subscriber that calls process_msg on its own thread
SubscriberProcessMsg(p) ==
    /\ pc[p] = "push_message"
    /\ AssignEng(IF pushed[Len(pushed)].event
                 THEN on_accepted_block(Begin(Eng), pushed[Len(pushed)].data)
                 ELSE process_net_msg(Begin(Eng), pushed[Len(pushed)].data))
    /\ message_queue_mutex' = NoThread
    /\ Goto(p, "idle")
    /\ UNCHANGED <<message_queue, need_notify, queue_done, new_msg_cond, done, pushed, returned>>

\* push_message under the lock: push, notify_one if _need_notify, unlock
ProducerPush(p) ==
    /\ pc[p] = "push_message"
    /\ message_queue' = Append(message_queue, pushed[Len(pushed)])
    /\ new_msg_cond' = IF need_notify THEN notify_one(new_msg_cond) ELSE new_msg_cond
    /\ message_queue_mutex' = NoThread
    /\ Goto(p, "idle")
    /\ UNCHANGED <<engine_vars, need_notify, queue_done, done, pushed, returned>>

\* get_next_msg_wait: if (_need_notify)
WorkerTestNeedNotify ==
    /\ pc[Worker] = "get_next_msg_wait"
    /\ Goto(Worker, IF need_notify THEN "wait_lock" ELSE "test_done")
    /\ UNCHANGED <<engine_vars, message_queue, need_notify, queue_done,
                   message_queue_mutex, new_msg_cond, done, pushed, returned>>

\* std::unique_lock lk(_message_queue_mutex), and the lock taken again after a wake-up
WorkerLock ==
    /\ pc[Worker] \in {"wait_lock", "woken"}
    /\ message_queue_mutex = NoThread
    /\ message_queue_mutex' = Worker
    /\ Goto(Worker, "wait_predicate")
    /\ UNCHANGED <<engine_vars, message_queue, need_notify, queue_done, new_msg_cond,
                   done, pushed, returned>>

\* wait(lk, pred) evaluates the predicate with the lock held; when it holds
\* the wait is over and lk is released at the end of its scope
WorkerTestPredicate ==
    /\ pc[Worker] = "wait_predicate"
    /\ IF wait_predicate
       THEN message_queue_mutex' = NoThread /\ Goto(Worker, "test_done")
       ELSE message_queue_mutex' = message_queue_mutex /\ Goto(Worker, "wait")
    /\ UNCHANGED <<engine_vars, message_queue, need_notify, queue_done, new_msg_cond,
                   done, pushed, returned>>

\* wait(lk): unlock and block, atomically
WorkerBlock ==
    /\ pc[Worker] = "wait"
    /\ message_queue_mutex' = NoThread
    /\ new_msg_cond' = new_msg_cond \cup {Worker}
    /\ Goto(Worker, "blocked")
    /\ UNCHANGED <<engine_vars, message_queue, need_notify, queue_done, done, pushed, returned>>

\* the worker was picked by a notify_one
WorkerWake ==
    /\ pc[Worker] = "blocked"
    /\ Worker \notin new_msg_cond
    /\ Goto(Worker, "woken")
    /\ UNCHANGED <<engine_vars, message_queue, need_notify, queue_done,
                   message_queue_mutex, new_msg_cond, done, pushed, returned>>

\* a spurious wake-up, which a condition variable may deliver and need not
WorkerSpuriousWake ==
    /\ pc[Worker] = "blocked"
    /\ Worker \in new_msg_cond
    /\ new_msg_cond' = new_msg_cond \ {Worker}
    /\ Goto(Worker, "woken")
    /\ UNCHANGED <<engine_vars, message_queue, need_notify, queue_done,
                   message_queue_mutex, done, pushed, returned>>

\* get_next_msg_wait: if (_done) return nullptr
WorkerTestDone ==
    /\ pc[Worker] = "test_done"
    /\ Goto(Worker, IF queue_done THEN "returned_null" ELSE "get_next_msg")
    /\ UNCHANGED <<engine_vars, message_queue, need_notify, queue_done,
                   message_queue_mutex, new_msg_cond, done, pushed, returned>>

\* get_next_msg: mutex_guard lock(_message_queue_mutex)
WorkerLockQueue ==
    /\ pc[Worker] = "get_next_msg"
    /\ message_queue_mutex = NoThread
    /\ message_queue_mutex' = Worker
    /\ Goto(Worker, "get_next_msg_locked")
    /\ UNCHANGED <<engine_vars, message_queue, need_notify, queue_done, new_msg_cond,
                   done, pushed, returned>>

\* get_next_msg under the lock; a message is returned by get_next_msg_wait
\* at once, a null pointer sends it round its loop
WorkerGetNextMsg ==
    /\ pc[Worker] = "get_next_msg_locked"
    /\ IF message_queue = <<>>
       THEN /\ need_notify' = TRUE
            /\ Goto(Worker, "get_next_msg_wait")
            /\ UNCHANGED <<message_queue, returned>>
       ELSE /\ need_notify' = FALSE
            /\ message_queue' = Tail(message_queue)
            /\ returned' = Append(returned, Head(message_queue))
            /\ Goto(Worker, "returned_msg")
    /\ message_queue_mutex' = NoThread
    /\ UNCHANGED <<engine_vars, queue_done, new_msg_cond, done, pushed>>

\* loop(): if (_done) break; process_msg(msg)
WorkerLoop ==
    /\ pc[Worker] \in {"returned_msg", "returned_null"}
    /\ Goto(Worker, IF done THEN "exited" ELSE "get_next_msg_wait")
    /\ UNCHANGED <<engine_vars, message_queue, need_notify, queue_done,
                   message_queue_mutex, new_msg_cond, done, pushed, returned>>

\* stop(): _done = true
StopSetDone ==
    /\ pc[Stopper] = "idle"
    /\ done' = TRUE
    /\ Goto(Stopper, "terminate")
    /\ UNCHANGED <<engine_vars, message_queue, need_notify, queue_done,
                   message_queue_mutex, new_msg_cond, pushed, returned>>

\* terminate(): _done = true
TerminateSetDone ==
    /\ pc[Stopper] = "terminate"
    /\ queue_done' = TRUE
    /\ Goto(Stopper, "notify_one")
    /\ UNCHANGED <<engine_vars, message_queue, need_notify, message_queue_mutex,
                   new_msg_cond, done, pushed, returned>>

\* terminate(): _new_msg_cond.notify_one()
TerminateNotify ==
    /\ pc[Stopper] = "notify_one"
    /\ new_msg_cond' = notify_one(new_msg_cond)
    /\ Goto(Stopper, "join")
    /\ UNCHANGED <<engine_vars, message_queue, need_notify, queue_done,
                   message_queue_mutex, done, pushed, returned>>

\* stop(): _thread_ptr->join()
StopJoin ==
    /\ pc[Stopper] = "join"
    /\ pc[Worker] = "exited"
    /\ Goto(Stopper, "stopped")
    /\ UNCHANGED <<engine_vars, message_queue, need_notify, queue_done,
                   message_queue_mutex, new_msg_cond, done, pushed, returned>>

\* the steps the worker takes when it can
WorkerStep ==
    \/ WorkerTestNeedNotify
    \/ WorkerLock
    \/ WorkerTestPredicate
    \/ WorkerBlock
    \/ WorkerWake
    \/ WorkerTestDone
    \/ WorkerLockQueue
    \/ WorkerGetNextMsg
    \/ WorkerLoop

\* the steps of stop() once it has been called
StopStep ==
    \/ TerminateSetDone
    \/ TerminateNotify
    \/ StopJoin

NextQueueRun ==
    \/ WorkerStep
    \/ WorkerSpuriousWake
    \/ \E p \in Producers : ProducerLock(p)
    \/ \E p \in Producers : ProducerPush(p)

\* the queue with its producers and its worker, and no call of stop(): the
\* worker runs when it can and a push that holds the lock completes
SpecQueueRun ==
    /\ Init
    /\ [][NextQueueRun]_vars
    /\ WF_vars(WorkerStep)
    /\ \A p \in Producers : WF_vars(ProducerPush(p))

NextQueue ==
    \/ NextQueueRun
    \/ StopSetDone
    \/ StopStep

\* the same with a thread that may call stop(), and goes on once it has
SpecQueue ==
    /\ Init
    /\ [][NextQueue]_vars
    /\ WF_vars(WorkerStep)
    /\ WF_vars(StopStep)
    /\ \A p \in Producers : WF_vars(ProducerPush(p))

(***************************************************************************)
(* The engine behind its queue: the subscribers of the net and event       *)
(* channels push what they receive, and the worker thread hands each       *)
(* message it takes from the queue to process_msg.  The handler of an      *)
(* accepted block that starts a round is taken in two steps, up to         *)
(* remove_round and from there on.                                         *)
(***************************************************************************)
\* what the channels deliver: the first blocks of the chain, and votes of
\* the producers 2 and 3 for the first block
QueuedItems ==
    {[event |-> TRUE, data |-> BlockEvent(<<n, MainTag>>, FALSE)] : n \in 1..MaxPushes}
    \cup {[event |-> FALSE,
           data |-> [ses_id |-> 1, age |-> 0,
                     data |-> prevote_msg(0, Genesis, <<<<1, MainTag>>>>, <<2, 3>>)]],
          [event |-> FALSE,
           data |-> [ses_id |-> 1, age |-> 0,
                     data |-> precommit_msg(0, <<1, MainTag>>, <<2, 3>>)]]}

\* subscribe(): the callback of a channel enters push_message with what it received
SubscriberLock(p) ==
    /\ pc[p] = "idle"
    /\ Len(pushed) < MaxPushes
    /\ message_queue_mutex = NoThread
    /\ message_queue_mutex' = p
    /\ \E item \in QueuedItems : pushed' = Append(pushed, item)
    /\ Goto(p, "push_message")
    /\ UNCHANGED <<engine_vars, message_queue, need_notify, queue_done, new_msg_cond,
                   done, returned>>

\* the message loop() is working on
CurrentMsg == returned[Len(returned)]

\* on(on_accepted_block_event) reaches remove_round
StartsRound(e, ev) ==
    LET ins == insert(e.prefix_tree, ev.prev_block_id, ev.block_id,
                      ev.creator_key, ev.active_bp_keys)
    IN /\ ins.ok
       /\ ~ev.sync
       /\ ~IsLagging(ev.block_id, e.lib)
       /\ should_start_round([e EXCEPT !.prefix_tree = ins.tree], ev.block_id)

\* on(on_accepted_block_event) up to and with remove_round
accepted_block_remove_round(e, ev) ==
    remove_round([e EXCEPT !.prefix_tree = insert(e.prefix_tree, ev.prev_block_id, ev.block_id,
                                                  ev.creator_key, ev.active_bp_keys).tree,
                           !.is_syncing = ev.sync,
                           !.is_frozen = IsLagging(ev.block_id, e.lib)])

\* on(on_accepted_block_event) after remove_round
accepted_block_new_round(e, ev) ==
    LET e2 == IF is_active_bp(e, ev.block_id)
              THEN new_round(e, round_num(ev.block_id), ev.creator_key, ev.active_bp_keys)
              ELSE e
    IN IF should_end_prevote(e2, ev.block_id) THEN end_prevote(e2) ELSE e2

\* loop(): process_msg(msg), for a message that starts no round
WorkerProcessMsg ==
    /\ pc[Worker] = "returned_msg"
    /\ ~done
    /\ ~(CurrentMsg.event /\ StartsRound(Eng, CurrentMsg.data))
    /\ AssignEng(IF CurrentMsg.event
                 THEN on_accepted_block(Begin(Eng), CurrentMsg.data)
                 ELSE process_net_msg(Begin(Eng), CurrentMsg.data))
    /\ Goto(Worker, "get_next_msg_wait")
    /\ UNCHANGED <<message_queue, need_notify, queue_done, message_queue_mutex,
                   new_msg_cond, done, pushed, returned>>

\* loop(): process_msg(msg) for an accepted block that starts a round, up to
\* remove_round
WorkerRemoveRound ==
    /\ pc[Worker] = "returned_msg"
    /\ ~done
    /\ CurrentMsg.event
    /\ StartsRound(Eng, CurrentMsg.data)
    /\ AssignEng(accepted_block_remove_round(Begin(Eng), CurrentMsg.data))
    /\ Goto(Worker, "new_round")
    /\ UNCHANGED <<message_queue, need_notify, queue_done, message_queue_mutex,
                   new_msg_cond, done, pushed, returned>>

\* the rest of it: new_round for an active producer, and end_prevote
WorkerNewRound ==
    /\ pc[Worker] = "new_round"
    /\ AssignEng(accepted_block_new_round(Eng, CurrentMsg.data))
    /\ Goto(Worker, "get_next_msg_wait")
    /\ UNCHANGED <<message_queue, need_notify, queue_done, message_queue_mutex,
                   new_msg_cond, done, pushed, returned>>

NextPump ==
    \/ WorkerTestNeedNotify
    \/ WorkerLock
    \/ WorkerTestPredicate
    \/ WorkerBlock
    \/ WorkerWake
    \/ WorkerSpuriousWake
    \/ WorkerTestDone
    \/ WorkerLockQueue
    \/ WorkerGetNextMsg
    \/ WorkerProcessMsg
    \/ WorkerRemoveRound
    \/ WorkerNewRound
    \/ \E p \in Producers : SubscriberLock(p)
    \/ \E p \in Producers : ProducerPush(p)

SpecPump == Init /\ [][NextPump]_vars

(***************************************************************************)
(* Properties.                                                             *)
(***************************************************************************)
\* the single-key prevotes that on(prevote_msg) hands to add_prevote
SinglePrevotes(e) ==
    UNION {{with_single_key(m, i) : i \in 1..Len(m.signatures)} : m \in PrevoteMsgs(e)}

\* a tree of one node with n active producers of which c have prevoted
ThresholdTree(n, c) ==
    [root |-> Genesis,
     nodes |-> (Genesis :> [NewNode(Genesis, NoBlock, ZeroKey, 1..n)
                               EXCEPT !.confirmation_data = [k \in 1..c |-> k]]),
     order |-> <<>>]

\* C1: recording a prevote in state prevote moves the round to
\* ready_to_precommit and sets best_node to the node N that add_confirmations
\* returned exactly when confirmation_number(N) > floor(2 * |active_bp_keys(N)| / 3),
\* and in state ready_to_precommit it moves nothing; a count equal to the
\* floor does not cross: of 6 producers 4 prevotes do not and 5 do, of 4
\* producers 3 do.
C1_PrevoteThreshold ==
    /\ ~is_prevote_threshold_reached(ThresholdTree(6, 4), Genesis)
    /\ is_prevote_threshold_reached(ThresholdTree(6, 5), Genesis)
    /\ ~is_prevote_threshold_reached(ThresholdTree(4, 2), Genesis)
    /\ is_prevote_threshold_reached(ThresholdTree(4, 3), Genesis)
    /\ (round # NoRound /\ round.state \in {"prevote", "ready_to_precommit"}) =>
          \A m \in SinglePrevotes(Eng) :
              LET n == add_confirmations(prefix_tree, m.data.base_block, m.data.blocks,
                                         public_keys(m)[1], m)
                  after == add_prevote(Eng, m)
                  crossed ==
                      confirmation_number(n.tree, n.node)
                          > (2 * Cardinality(n.tree.nodes[n.node].active_bp_keys)) \div 3
              IN n.node # NoBlock =>
                  IF round.state = "prevote" /\ crossed
                  THEN after.round.state = "ready_to_precommit"
                       /\ after.round.best_node = n.node
                  ELSE after.round.state = round.state
                       /\ after.round.best_node = round.best_node

\* a round that took the crossing prevote: three prevotes of four producers
\* on its best node
C1_Witness ==
    /\ round # NoRound
    /\ round.state = "ready_to_precommit"
    /\ round.best_node # NoBlock
    /\ ~round.best_detached
    /\ confirmation_number(prefix_tree, round.best_node) = 3
    /\ Cardinality(prefix_tree.nodes[round.best_node].active_bp_keys) = 4

\* C2: in every reachable state a round in state done holds precommits of
\* more than floor(2 * |active_bp_keys(best_node)| / 3) distinct keys.
C2_DoneHasSupermajority ==
    (round # NoRound /\ round.state = "done" /\ round.best_node # NoBlock) =>
        Cardinality(round.precommited_keys)
            > (2 * Cardinality(best_node_of(Eng).active_bp_keys)) \div 3

\* C3: in every reachable state a round in state precommit or done has a
\* best_node (the one assigned on entering ready_to_precommit).
C3_BestNodeSet ==
    (round # NoRound /\ round.state \in {"precommit", "done"}) => round.best_node # NoBlock

\* a peer whose tree holds the node with the same active_bp_keys
PeerWith(node) ==
    [prefix_tree |-> [root |-> node.block_id,
                      nodes |-> (node.block_id :> node),
                      order |-> <<>>]]

\* C4: the proof of a round that reached done by crossing the precommit
\* threshold, with round_num, best_block and prevotes filled in by
\* end_prevote and one precommit per key, is accepted by validate_proof on a
\* node whose tree holds best_block with the same active_bp_keys.
C4_ProofRoundTrip ==
    \A i \in 1..Len(done_cb_log) :
        (/\ done_cb_log[i].round.proof.best_block = done_cb_log[i].best.block_id
         /\ Cardinality(KeysOf(done_cb_log[i].round.proof.precommits))
                = Len(done_cb_log[i].round.proof.precommits)) =>
            validate_proof(PeerWith(done_cb_log[i].best), done_cb_log[i].round.proof)

\* C5: a step in which the round crosses the precommit threshold, in state
\* ready_to_precommit or precommit, with best_node above _lib, publishes
\* best_node's block id on the finality channel, caches the proof and sets
\* _lib and the tree root to best_node's block id.
C5_CompletionPublishes ==
    [][(done_cb_log' # <<>>
        /\ get_block_num(done_cb_log'[1].best.block_id) > get_block_num(lib)) =>
            /\ finality_out' = <<done_cb_log'[1].best.block_id>>
            /\ last_proofs' # <<>>
            /\ last_proofs'[1].best_block = done_cb_log'[1].best.block_id
            /\ lib' = done_cb_log'[1].best.block_id
            /\ prefix_tree'.root = done_cb_log'[1].best.block_id]_vars

\* C6: when the completion callback is invoked the round's proof has
\* round_num = round.num, best_block = best_node.block_id, the prevotes of
\* best_node.confirmation_data, and more than
\* floor(2 * |active_bp_keys(best_node)| / 3) precommits.
C6_ProofAtCallback ==
    \A i \in 1..Len(done_cb_log) :
        LET r == done_cb_log[i].round
            best == done_cb_log[i].best
        IN /\ r.proof.round_num = r.num
           /\ r.proof.best_block = best.block_id
           /\ r.proof.prevotes = ConfirmationMsgs(best)
           /\ Len(r.proof.precommits) > (2 * Cardinality(best.active_bp_keys)) \div 3

\* C7: over any sequence of events and network messages the block number
\* of _lib never decreases.
C7_MonotoneLib == [][get_block_num(lib') >= get_block_num(lib)]_vars

\* _lib moved up twice: by a completed round and then by an irreversible event
C7_Witness ==
    /\ get_block_num(lib) = 2
    /\ last_proofs # <<>>
    /\ get_block_num(last_proofs[1].best_block) = 1
    /\ round # NoRound
    /\ round.state = "done"
    /\ round.precommited_keys # {}

\* C8: each newly constructed round has a number greater than or equal to
\* the number of every round the engine held before it.
C8_RoundMonotone ==
    [][(round' # NoRound /\ round' # round) => round'.num >= held_round_num]_vars

RoundMsgs(e) == PrevoteMsgs(e) \cup PrecommitMsgs(e)

\* C9: processing a prevote or precommit message a second time through
\* process_round_msg leaves the engine as the first processing left it and
\* sends nothing; and the round itself takes the same message a second time
\* without a change.
C9_Idempotence ==
    \A m \in RoundMsgs(Eng) : \A s \in Sessions :
        LET once == process_round_msg(Begin(Eng), s, m)
            twice == process_round_msg(Begin(once), s, m)
            on_msg(e) == IF m.type = "prevote" THEN round_on_prevote(e, m)
                         ELSE round_on_precommit(e, m)
        IN /\ twice = Begin(once)
           /\ round # NoRound => on_msg(Begin(on_msg(Begin(Eng)))) = Begin(on_msg(Begin(Eng)))

\* a round message was processed and the round took a vote from it
C9_Witness ==
    /\ round # NoRound
    /\ \E m \in RoundMsgs(Eng) :
          /\ digest(m) \in self_messages
          /\ \E i \in 1..Len(m.signatures) :
                public_keys(m)[i] \in round.prevoted_keys \cup round.precommited_keys
                /\ public_keys(m)[i] \notin LocalKeys

BcastMsgs(e) ==
    RoundMsgs(e) \cup {finality_notice_msg(r, b, signature_providers_of(e)) :
                           r \in RoundNums(e), b \in Candidates(e)}

\* C10 as stated: a broadcast hands a digest to every peer session at most
\* once.
C10_OncePerSession ==
    \A m \in BcastMsgs(Eng) :
        LET out == bcast(Begin(Eng), m).out_net
        IN \A i, j \in 1..Len(out) : out[i].ses_id = out[j].ses_id => i = j

\* C10: the second call of bcast(m) with the same digest, with no
\* remove_round in between, sends nothing and leaves _peer_messages as it is;
\* the first call sends one copy for every entry of _peers, and so does a
\* call that follows remove_round.
C10_BcastDedup ==
    \A m \in BcastMsgs(Eng) :
        LET first == bcast(Begin(Eng), m)
            second == bcast(Begin(first), m)
            cleared == bcast(Begin(remove_round(first)), m)
        IN /\ second = Begin(first)
           /\ digest(m) \in first.peer_messages
           /\ digest(m) \notin peer_messages =>
                 /\ Len(first.out_net) = Cardinality(DOMAIN peers)
                 /\ \A i \in 1..Len(first.out_net) : first.out_net[i].data = m
           /\ Len(cleared.out_net) = Cardinality(DOMAIN peers)
           /\ \A i \in 1..Len(cleared.out_net) : cleared.out_net[i].data = m

\* a node with peers that has broadcast a message of a peer
C10_Witness ==
    /\ DOMAIN peers # {}
    /\ \E m \in RoundMsgs(Eng) : digest(m) \in peer_messages

\* the keys that have a confirmation stored on some node of the tree
ConfirmedKeys(t) == UNION {DOMAIN t.nodes[id].confirmation_data : id \in DOMAIN t.nodes}

\* the single-key precommits that on(precommit_msg) hands to add_precommit
SinglePrecommits(e) ==
    UNION {{with_single_key(m, i) : i \in 1..Len(m.signatures)} : m \in PrecommitMsgs(e)}

\* C11: in a round every key with a stored prevote is in prevoted_keys, a
\* further prevote of a key of prevoted_keys, for whatever branch, leaves
\* the tree and the round as they are, every key of proof.precommits is in
\* precommited_keys, and proof.precommits holds at most one entry per key.
C11_OneVotePerKey ==
    round # NoRound =>
        /\ ConfirmedKeys(prefix_tree) \subseteq round.prevoted_keys
        /\ \A m \in SinglePrevotes(Eng) :
              public_keys(m)[1] \in round.prevoted_keys =>
                  LET after == round_on_prevote(Eng, m)
                  IN after.prefix_tree = prefix_tree /\ after.round = round
        /\ KeysOf(round.proof.precommits) = round.precommited_keys
        /\ Cardinality(KeysOf(round.proof.precommits)) = Len(round.proof.precommits)

\* C12: every key of precommited_keys and of proof.precommits of a round has
\* a prevote confirmation stored on best_node, whether its precommit came
\* from the network or from precommit().
C12_PrecommitHasPrevote ==
    (round # NoRound /\ round.best_node # NoBlock) =>
        \A k \in round.precommited_keys \cup KeysOf(round.proof.precommits) :
            has_confirmation(best_node_of(Eng), k)

\* a message cut down to its first n signatures
FirstSigs(msg, n) == [msg EXCEPT !.signatures = SubSeq(@, 1, n)]

\* C13: a signature of a prevote message is recorded (a tree confirmation or
\* prevoted_keys changes) only when the round is in state prevote or
\* ready_to_precommit at that signature, and a signature of a precommit
\* message is recorded (precommited_keys or proof.precommits changes) only
\* when the round is in state ready_to_precommit or precommit at that
\* signature.
C13_IngressGating ==
    round # NoRound =>
        /\ \A m \in PrevoteMsgs(Eng) : \A i \in 1..Len(m.signatures) :
              LET before == round_on_prevote(Eng, FirstSigs(m, i - 1))
                  after == round_on_prevote(Eng, FirstSigs(m, i))
              IN (\/ after.prefix_tree # before.prefix_tree
                  \/ after.round.prevoted_keys # before.round.prevoted_keys)
                     => before.round.state \in {"prevote", "ready_to_precommit"}
        /\ \A m \in PrecommitMsgs(Eng) : \A i \in 1..Len(m.signatures) :
              LET before == round_on_precommit(Eng, FirstSigs(m, i - 1))
                  after == round_on_precommit(Eng, FirstSigs(m, i))
              IN (\/ after.round.precommited_keys # before.round.precommited_keys
                  \/ after.round.proof.precommits # before.round.proof.precommits)
                     => before.round.state \in {"ready_to_precommit", "precommit"}

\* the engine with the flags of a syncing or lagging chain; _is_frozen is
\* set by a block more than max_finality_lag_blocks above _lib and stays set
\* when an irreversible event then prunes the tree
GatedEngs ==
    {[Eng EXCEPT !.is_syncing = f[1], !.is_frozen = f[2]] :
        f \in {<<TRUE, FALSE>>, <<FALSE, TRUE>>, <<TRUE, TRUE>>}}

C15_ExternalProofAdvancesLib ==
    \A m \in NetMsgs(ProofMsgs(Eng)) :
        LET proof == m.data.data
            after == process_net_msg(Begin(Eng), m)
        IN (/\ m.age <= msg_expiration_ms
            /\ ~is_syncing /\ ~is_frozen
            /\ validate_proof(Eng, proof)
            /\ get_block_num(proof.best_block) > get_block_num(lib)
            /\ get_block_num(proof.best_block) > last_prooved_block_num) =>
               /\ after.lib = proof.best_block
               /\ after.finality_out = <<proof.best_block>>
               /\ \A i \in 1..Len(after.out_net) :
                     /\ after.out_net[i].data.type = "finality_notice"
                     /\ after.out_net[i].data.data.best_block = proof.best_block
               /\ DOMAIN peers # {} => after.out_net # <<>>

\* C16: every step that changes _lib emits the new _lib on the finality
\* channel, and every block id a step emits on the finality channel is the
\* block _lib has become in that step.
C16_EmitIffLibAdvances ==
    [][/\ lib' # lib => finality_out' = <<lib'>>
       /\ \A i \in 1..Len(finality_out') : finality_out'[i] = lib' /\ lib' # lib]_vars

\* the votes of a set of keys as one message per key, or as one message
\* that carries all the signatures
VotesOf(msg, voters, together) ==
    IF together THEN <<[msg EXCEPT !.signatures = SetToSeq(voters)]>>
    ELSE [i \in 1..Cardinality(voters) |-> [msg EXCEPT !.signatures = <<SetToSeq(voters)[i]>>]]

\* proofs for a block of the chain, well formed or broken in one or more
\* places: prevotes that stop below best_block, precommits for another
\* block, voters outside the schedule, precommitters that did not prevote,
\* a precommit that is there twice
ChainProofs(e) ==
    {[round_num |-> round_num(b), best_block |-> b,
      prevotes |-> VotesOf(prevote_msg(round_num(b), e.prefix_tree.root,
                                       PathTo(e.prefix_tree.root,
                                              IF short THEN PrevBlock(b) ELSE b), <<>>),
                           pv, together),
      precommits |-> LET cvs == VotesOf(precommit_msg(round_num(b),
                                                      IF other THEN PrevBlock(b) ELSE b, <<>>),
                                        cv, together)
                     IN IF twice THEN cvs \o <<cvs[1]>> ELSE cvs] :
        b \in ChainBlocks, short \in BOOLEAN, other \in BOOLEAN,
        pv \in {Keys \ {1}, {2, 3}, Keys \cup {ZeroKey}},
        cv \in {Keys \ {1}, {2, 3}, Keys \ {NumKeys}},
        together \in BOOLEAN, twice \in BOOLEAN}

\* the conditions of a valid proof, over the sets of its voters
ProofAccepted(t, proof) ==
    /\ proof.best_block \in DOMAIN t.nodes
    /\ LET T == t.nodes[proof.best_block]
           prevoters == KeysOf(proof.prevotes)
           precommitters == KeysOf(proof.precommits)
       IN /\ prevoters \subseteq T.active_bp_keys
          /\ \A i \in 1..Len(proof.prevotes) :
                \/ proof.prevotes[i].data.base_block = proof.best_block
                \/ \E j \in 1..Len(proof.prevotes[i].data.blocks) :
                      proof.prevotes[i].data.blocks[j] = proof.best_block
          /\ precommitters \subseteq (prevoters \cap T.active_bp_keys)
          /\ \A i \in 1..Len(proof.precommits) :
                proof.precommits[i].data.block_id = proof.best_block
          /\ 3 * Cardinality(precommitters) > 2 * Cardinality(T.active_bp_keys)
                 - ((2 * Cardinality(T.active_bp_keys)) % 3)

\* C17: validate_proof(proof) is true exactly when best_block is a node T of
\* the tree, every key of every prevote is in T.active_bp_keys and the
\* prevote has base_block = best_block or best_block among its blocks, every
\* key of every precommit is a prevoter of the proof and in
\* T.active_bp_keys and the precommit is for best_block, and the distinct
\* precommitter keys number more than floor(2 * |T.active_bp_keys| / 3).
C17_ValidateProof ==
    \A proof \in ChainProofs(Eng) :
        validate_proof(Eng, proof) <=> ProofAccepted(prefix_tree, proof)

\* a tree for which one of the proofs is accepted and another, with enough
\* precommit entries for its block but too few distinct keys, is rejected
C17_Witness ==
    /\ \E proof \in ChainProofs(Eng) : validate_proof(Eng, proof)
    /\ \E proof \in ChainProofs(Eng) :
          /\ ~validate_proof(Eng, proof)
          /\ find(prefix_tree, proof.best_block)
          /\ KeysOf(proof.precommits) \subseteq KeysOf(proof.prevotes)
          /\ Len(proof.precommits)
                > (2 * Cardinality(prefix_tree.nodes[proof.best_block].active_bp_keys)) \div 3
          /\ \A i \in 1..Len(proof.precommits) :
                /\ Len(proof.precommits[i].signatures) = 1
                /\ proof.precommits[i].data.block_id = proof.best_block

\* the digests of the votes a node signs with the providers of its round
OwnVoteDigests(e) ==
    IF e.round = NoRound THEN {}
    ELSE {digest(m) : m \in
            {prevote_msg(e.round.num, e.prefix_tree.root,
                         PathTo(e.prefix_tree.root, b), e.round.signature_providers) :
                b \in ChainBlocks}
            \cup {precommit_msg(e.round.num, b, e.round.signature_providers) :
                     b \in ChainBlocks}}

\* the block events of the chain, and those of its new blocks under a
\* schedule that has dropped this node's keys
SchedulingEvents(e) ==
    AcceptedChainEvents
        \cup {[BlockEvent(b, FALSE) EXCEPT !.active_bp_keys = Keys \ LocalKeys] :
                 b \in {c \in ChainBlocks : ~find(e.prefix_tree, c)}}

\* C18: for an accepted block B that is inserted and leaves the node neither
\* syncing nor frozen, a round start happens exactly when there is no round
\* or round_num(B) > the round's number, with round_num(B) =
\* (block_num(B) - 1) div 2.  A round start leaves nothing of the old round:
\* _self_messages is empty, _peer_messages and the tree's confirmations hold
\* at most the new round's own votes; the new round has number round_num(B)
\* and primary creator_key(B) and exists exactly when the node is a block
\* producer with one of its keys in active_bp_keys(B).  Without a round
\* start the round, its votes and _self_messages stay.
C18_RoundScheduling ==
    /\ \A b \in ChainBlocks : round_num(b) = (get_block_num(b) - 1) \div 2
    /\ \A ev \in SchedulingEvents(Eng) :
          LET after == on_accepted_block(Begin(Eng), ev)
              starts == round = NoRound \/ round_num(ev.block_id) > round.num
              active == is_block_producer /\ (LocalKeys \cap ev.active_bp_keys) # {}
          IN (/\ find(prefix_tree, ev.prev_block_id)
              /\ ~ev.sync
              /\ ~IsLagging(ev.block_id, lib)) =>
                IF starts
                THEN /\ after.self_messages = {}
                     /\ after.peer_messages \subseteq OwnVoteDigests(after)
                     /\ ConfirmedKeys(after.prefix_tree) \subseteq LocalKeys
                     /\ IF active
                        THEN /\ after.round # NoRound
                             /\ after.round.num = round_num(ev.block_id)
                             /\ after.round.primary = ev.creator_key
                             /\ after.round.prevoted_keys \subseteq LocalKeys
                             /\ after.round.precommited_keys \subseteq LocalKeys
                        ELSE /\ after.round = NoRound
                             /\ after.peer_messages = {}
                             /\ ConfirmedKeys(after.prefix_tree) = {}
                ELSE /\ after.round # NoRound
                     /\ after.round.num = round.num
                     /\ after.round.primary = round.primary
                     /\ round.prevoted_keys \subseteq after.round.prevoted_keys
                     /\ round.precommited_keys \subseteq after.round.precommited_keys
                     /\ after.self_messages = self_messages
                     /\ peer_messages \subseteq after.peer_messages

\* a block producer in a round with votes of its peers and both caches in
\* use, with the last block of the round in its tree
C18_Witness ==
    /\ is_block_producer
    /\ ~is_syncing
    /\ round # NoRound
    /\ round.prevoted_keys \ LocalKeys # {}
    /\ ConfirmedKeys(prefix_tree) \ LocalKeys # {}
    /\ self_messages # {}
    /\ peer_messages # {}
    /\ find(prefix_tree, <<round_width, MainTag>>)

\* C19: once terminate() has set _done the worker leaves get_next_msg_wait
\* and its loop, and stop() returns from join.
C19_TerminateReturns ==
    queue_done ~> (pc[Worker] = "exited" /\ pc[Stopper] = "stopped")

IsPrefix(s, t) == Len(s) <= Len(t) /\ SubSeq(t, 1, Len(s)) = s

\* C20: with no call of terminate(), the messages get_next_msg_wait has
\* returned are at all times the first of the pushed messages in the order
\* in which the pushes took the mutex, and every pushed message is returned
\* in the end.
C20_FifoDelivery ==
    /\ [](IsPrefix(returned, pushed))
    /\ \A n \in 1..MaxPushes : (Len(pushed) >= n) ~> (Len(returned) >= n)

\* every message has been pushed and returned and the worker is blocked
\* again, woken at least once by a push
C20_Witness ==
    /\ Len(pushed) = MaxPushes
    /\ returned = pushed
    /\ pc[Worker] = "blocked"
    /\ Worker \in new_msg_cond
    /\ need_notify

\* state_type: the edges its comments document
StateEdges ==
    {<<"init", "prevote">>, <<"prevote", "ready_to_precommit">>, <<"prevote", "fail">>,
     <<"ready_to_precommit", "precommit">>, <<"precommit", "done">>, <<"precommit", "fail">>}

\* one write of the state at most, along a documented edge
StateEdge(s, t) == s = t \/ <<s, t>> \in StateEdges

\* a path of documented edges, which is at most four edges long
StatePath(s, t) ==
    \E a, b, c \in {"init", "prevote", "ready_to_precommit", "precommit", "done", "fail"} :
        StateEdge(s, a) /\ StateEdge(a, b) /\ StateEdge(b, c) /\ StateEdge(c, t)

\* C21: the state of a round changes along the documented edges only:
\* over a step of the engine that keeps the round, its state moves along a
\* path of documented edges (done and fail are left by none), and each
\* signature of a prevote or precommit message and each proof message moves
\* it by one documented edge at most (ready_to_precommit does not jump to
\* done, and done is entered from precommit only).
C21_StateEdges ==
    /\ [][(round # NoRound /\ round' # NoRound /\ round'.num = round.num) =>
             StatePath(round.state, round'.state)]_vars
    /\ [](round # NoRound =>
            /\ \A m \in PrevoteMsgs(Eng) : \A i \in 1..Len(m.signatures) :
                  StateEdge(round_on_prevote(Eng, FirstSigs(m, i - 1)).round.state,
                            round_on_prevote(Eng, FirstSigs(m, i)).round.state)
            /\ \A m \in PrecommitMsgs(Eng) : \A i \in 1..Len(m.signatures) :
                  StateEdge(round_on_precommit(Eng, FirstSigs(m, i - 1)).round.state,
                            round_on_precommit(Eng, FirstSigs(m, i)).round.state)
            /\ \A m \in ProofMsgs(Eng) : \A s \in Sessions :
                  StateEdge(round.state, on_proof_msg(Begin(Eng), s, m).round.state))

\* C22: once an accepted block has set _is_frozen it stays set, whatever
\* events follow: no step takes _is_frozen from true to false.
C22_FrozenSticky == [][is_frozen => is_frozen']_vars

\* the round messages of peers, for the live round of the chain and for
\* the first rounds of the chain
AnyRoundMsgs(e) ==
    {[m EXCEPT !.data.round_num = r] :
        m \in RoundMsgs(e), r \in {round_num(get_head(e.prefix_tree)), 0, 1}}

\* the prevote and precommit messages among the messages a step has sent
RoundMsgsSent(e) ==
    SelectSeq(e.out_net, LAMBDA o : o.data.type \in {"prevote", "precommit"})

\* C23 as stated: a round message is forwarded only when its round_num is
\* round_num(head), and a digest that has been forwarded is not forwarded
\* again, whatever accepted block comes in between.
C23_ForwardOnce ==
    \A m \in AnyRoundMsgs(Eng) : \A s \in Sessions : \A ev \in AcceptedBlockEvents :
        LET first == process_round_msg(Begin(Eng), s, m)
            later == on_accepted_block(Begin(first), ev)
            again == process_round_msg(Begin(later), s, m)
        IN /\ RoundMsgsSent(first) # <<>> =>
                 m.data.round_num = round_num(get_head(prefix_tree))
           /\ RoundMsgsSent(first) # <<>> => RoundMsgsSent(again) = <<>>

\* C23: process_round_msg sends a prevote or precommit message on only
\* when its round_num is round_num(head of the tree), with or without a
\* local round, and only when its digest is in neither dedup cache; what it
\* sends is that message, to the sessions of _peers; a message of the live
\* round whose digest is in neither cache is sent on when the node is
\* neither syncing nor frozen and has peers; and as long as no round start
\* has cleared the caches the same digest is not sent on again.
C23_ForwardLiveRound ==
    \A m \in AnyRoundMsgs(Eng) : \A s \in Sessions :
        LET first == process_round_msg(Begin(Eng), s, m)
            sent == RoundMsgsSent(first)
            live == m.data.round_num = round_num(get_head(prefix_tree))
            fresh == digest(m) \notin self_messages /\ digest(m) \notin peer_messages
        IN /\ sent # <<>> => live /\ fresh
           /\ \A i \in 1..Len(sent) :
                 /\ sent[i].data = m
                 /\ \E k \in DOMAIN peers : peers[k] = sent[i].ses_id
           /\ (live /\ fresh /\ ~is_syncing /\ ~is_frozen /\ DOMAIN peers # {}) => sent # <<>>
           /\ RoundMsgsSent(process_round_msg(Begin(first), s, m)) = <<>>
           /\ \A ev \in AcceptedBlockEvents :
                 LET later == on_accepted_block(Begin(first), ev)
                     starts == /\ find(first.prefix_tree, ev.prev_block_id)
                               /\ ~ev.sync
                               /\ ~IsLagging(ev.block_id, first.lib)
                               /\ \/ first.round = NoRound
                                  \/ round_num(ev.block_id) > first.round.num
                 IN (sent # <<>> /\ ~starts) =>
                       RoundMsgsSent(process_round_msg(Begin(later), s, m)) = <<>>

\* a node without a round that has peers and has sent on a vote of a peer
C23_Witness ==
    /\ round = NoRound
    /\ DOMAIN peers # {}
    /\ \E m \in RoundMsgs(Eng) :
          /\ m.data.round_num = round_num(get_head(prefix_tree))
          /\ digest(m) \in self_messages
          /\ digest(m) \in peer_messages

NoneDeeper(e) ==
    (e.round.best_node # NoBlock /\ ~e.round.best_detached) =>
        \A d \in DOMAIN e.prefix_tree.nodes :
            (d # e.round.best_node /\ IsDescendantOrSelf(e.prefix_tree, d, e.round.best_node)) =>
                ~is_prevote_threshold_reached(e.prefix_tree, d)

\* C25: best_node is the deepest block with prevotes past the threshold:
\* in a round that end_prevote has taken to precommit or done, no proper
\* descendant of best_node has confirmation_number >
\* floor(2 * |active_bp_keys| / 3); also when the prevotes come one key to
\* a message, one after the other, before end_prevote.
C25_BestNodeDeepest ==
    round # NoRound =>
        /\ round.state \in {"precommit", "done"} => NoneDeeper(Eng)
        /\ round.state \in {"prevote", "ready_to_precommit"} =>
              \A m1, m2 \in SinglePrevotes(Eng) :
                  LET ended == end_prevote(round_on_prevote(round_on_prevote(Eng, m1), m2))
                  IN ended.round.state \in {"precommit", "done"} => NoneDeeper(ended)

\* C26: the thresholds are looked at again after every prevote: whenever
\* a round has recorded prevotes and some block N of the tree (a node with
\* active producers) has confirmation_number(N) >
\* floor(2 * |active_bp_keys(N)| / 3), the round is in state
\* ready_to_precommit, precommit or done and has a best_node, in whatever
\* order the prevotes for a block and for its descendants have come.
C26_ThresholdReevaluated ==
    (round # NoRound /\ round.prevoted_keys # {}) =>
        ((\E n \in DOMAIN prefix_tree.nodes :
              /\ prefix_tree.nodes[n].active_bp_keys # {}
              /\ is_prevote_threshold_reached(prefix_tree, n))
            => /\ round.state \in {"ready_to_precommit", "precommit", "done"}
               /\ round.best_node # NoBlock)

\* the precommits of the round of e number more than the threshold
PrecommitsPastThreshold(e) ==
    /\ e.round # NoRound
    /\ e.round.best_node # NoBlock
    /\ is_precommit_threshold_reached(e)

\* the step goes on with the round it found
SameRound == round # NoRound /\ round' # NoRound /\ round'.num = round.num

\* C27: the completion callback of a round is invoked at most once, and
\* once when the precommits cross the threshold: a step invokes it once at
\* most; the step that invokes it takes a round that is in state
\* ready_to_precommit or precommit (or that it has started itself) to done;
\* a round in state done or fail does not leave the two states and gets no
\* further callback; and a step in which the number of precommits of the
\* round goes past the threshold invokes the callback.
C27_CallbackOnce ==
    [][/\ Len(done_cb_log') <= 1
       /\ done_cb_log' # <<>> =>
             /\ round' # NoRound
             /\ round'.state = "done"
             /\ done_cb_log'[1].round.num = round'.num
             /\ SameRound => round.state \in {"ready_to_precommit", "precommit"}
       /\ (SameRound /\ round.state \in {"done", "fail"}) =>
             /\ round'.state \in {"done", "fail"}
             /\ done_cb_log' = <<>>
       /\ (PrecommitsPastThreshold(Eng)'
              /\ ~(SameRound /\ PrecommitsPastThreshold(Eng))) =>
             Len(done_cb_log') = 1]_vars

\* a round completed by its callback in the step before, on the precommits
\* of its own key and of the producers that sign together
C27_Witness ==
    /\ Len(done_cb_log) = 1
    /\ round # NoRound
    /\ round.state = "done"
    /\ {1, 2, 3} \subseteq round.precommited_keys
    /\ Len(round.proof.precommits) > 3

\* the blocks a peer may know that the tree does not hold: blocks the tree
\* has let go of, blocks of a fork and blocks not yet accepted
UnknownBlocks(e) == ({Genesis} \cup ChainBlocks) \ DOMAIN e.prefix_tree.nodes

\* prevotes for the round of e whose base_block and blocks are all unknown
UnknownPrevotes(e) ==
    {prevote_msg(e.round.num, base, blocks, sigs) :
        base \in UnknownBlocks(e),
        blocks \in {<<>>} \cup {<<b>> : b \in UnknownBlocks(e)}
                     \cup {<<PrevBlock(b), b>> :
                              b \in {c \in UnknownBlocks(e) : PrevBlock(c) \in UnknownBlocks(e)}},
        sigs \in PrevoteSigSets}

\* C28: a prevote whose base_block and blocks are all absent from the tree
\* is dropped: the round (its state, best_node, prevoted_keys and the rest)
\* and the tree with every node's confirmation_data are as before, in every
\* state of the round and whether or not its signers have prevoted.
C28_UnknownPrevoteDropped ==
    round # NoRound =>
        \A m \in UnknownPrevotes(Eng) :
            /\ find_last_node(prefix_tree, m.data.base_block, m.data.blocks) = NoBlock
            /\ round_on_prevote(Eng, m) = Eng

\* a round in its prevote phase, over a tree whose root has active
\* producers, that a prevote of producers who have not prevoted would reach
\* if its blocks were known
C28_Witness ==
    /\ round # NoRound
    /\ round.state = "prevote"
    /\ prefix_tree.nodes[prefix_tree.root].active_bp_keys # {}
    /\ \E m \in UnknownPrevotes(Eng) :
          /\ Len(m.data.blocks) = 2
          /\ \A k \in SeqToSet(public_keys(m)) :
                k \notin round.prevoted_keys
                /\ k \in prefix_tree.nodes[prefix_tree.root].active_bp_keys

\* the proofs of peers for the blocks of the tree, from the round of the
\* chain's head and from the round after it: the best block of a round can
\* be a block of an earlier round
LaterRoundProofs(e) ==
    {proof_msg(ProofOf(r, e.prefix_tree.root, b, Keys \ {1}), <<2>>) :
        r \in {round_num(get_head(e.prefix_tree)), round_num(get_head(e.prefix_tree)) + 1},
        b \in InTree(e)}

\* C29: the block numbers sent on the finality channel go up strictly and
\* _last_prooved_block_num never goes down (it is the number of the last
\* block sent): in every step of a run, and when a proof message of a peer
\* is followed by a precommit message that completes the local round.
C29_MonotonePublication ==
    /\ [][/\ last_prooved_block_num' >= last_prooved_block_num
          /\ \A i \in 1..Len(finality_out') :
                get_block_num(finality_out'[i]) > last_prooved_block_num]_vars
    /\ [](round # NoRound =>
            \A p \in LaterRoundProofs(Eng) : \A m \in PrecommitMsgs(Eng) : \A s \in Sessions :
                LET proved == on_proof_msg(Begin(Eng), s, p)
                    completed == process_round_msg(Begin(proved), s, m)
                IN /\ proved.last_prooved_block_num >= last_prooved_block_num
                   /\ completed.last_prooved_block_num >= proved.last_prooved_block_num
                   /\ \A i \in 1..Len(proved.finality_out) :
                         get_block_num(proved.finality_out[i]) > last_prooved_block_num
                   /\ \A i \in 1..Len(completed.finality_out) :
                         get_block_num(completed.finality_out[i])
                             > proved.last_prooved_block_num)

\* the host chain makes a block of a competing branch irreversible
ForkIrreversibleEvents == {[block_id |-> <<get_block_num(b), ForkTag>>] : b \in MainBlocks}

\* C30: when the completion of the local round changes _lib, the new _lib
\* is a node of the tree below the previous _lib (update_lib keeps the
\* subtree and starts no fresh tree): in every step of a run, and when an
\* irreversible event for a block of a competing branch has moved the root
\* before the precommit message that completes the round.
C30_SingleChain ==
    /\ [][(done_cb_log' # <<>> /\ lib' # lib) =>
            /\ find(prefix_tree, lib')
            /\ IsDescendantOrSelf(prefix_tree, lib', lib)]_vars
    /\ [](round # NoRound =>
            \A ev \in ForkIrreversibleEvents : \A m \in PrecommitMsgs(Eng) : \A s \in Sessions :
                LET moved == on_irreversible(Begin(Eng), ev)
                    completed == process_round_msg(Begin(moved), s, m)
                IN (completed.done_cb_log # <<>> /\ completed.lib # moved.lib) =>
                      /\ find(moved.prefix_tree, completed.lib)
                      /\ IsDescendantOrSelf(moved.prefix_tree, completed.lib, moved.lib))

\* C31: the step that constructs a round does not end its prevote phase:
\* a round that was not there before the step (no round, or a round of
\* another number) is in a state end_prevote has not acted on (end_prevote
\* leaves a round in fail, or in precommit or done).
C31_NewRoundHasPrevoteWindow ==
    [][(round' # NoRound /\ (round = NoRound \/ round.num # round'.num)) =>
            round'.state \in {"init", "prevote", "ready_to_precommit"}]_vars

\* C32: a prevote or precommit message that was delivered earlier in the
\* life of the round (its digest is in _self_messages) without one of its
\* keys being recorded, and that the round now finds valid for that key
\* (the round is in a state that takes it, the block is known, the
\* threshold has been reached), is recorded for that key when the same
\* message is delivered again.
C32_RetryThroughGossip ==
    (round # NoRound /\ ~is_syncing /\ ~is_frozen) =>
        \A m \in RoundMsgs(Eng) : \A s \in Sessions : \A i \in 1..Len(m.signatures) :
            LET key == public_keys(m)[i]
                again == process_round_msg(Begin(Eng), s, m)
            IN /\ (/\ m.type = "prevote"
                   /\ digest(m) \in self_messages
                   /\ round.state \in {"prevote", "ready_to_precommit"}
                   /\ validate_prevote(Eng, m, key)) =>
                      key \in again.round.prevoted_keys
               /\ (/\ m.type = "precommit"
                   /\ digest(m) \in self_messages
                   /\ round.state \in {"precommit", "ready_to_precommit"}
                   /\ validate_precommit(Eng, m, key)) =>
                      key \in again.round.precommited_keys

====
